---- MODULE Spec2Model ----
(***************************************************************************)
(* Model of the certificate lifecycle of the multicluster-observability    *)
(* operator (package certificates): createCASecret, createCertSecret,      *)
(* getCA, removeExpiredCA, getHosts and CreateObservabilityCerts, acting   *)
(* on the secrets of a Kubernetes client.                                  *)
(*                                                                         *)
(* A secret blob ([]byte) is a sequence of byte tokens.  A PEM block of    *)
(* n bytes with DER body b is the run of tokens [b, 1, n] .. [b, n, n];    *)
(* any other token is data that pem.Decode skips.  Serial numbers and RSA  *)
(* keys are drawn from a counter, so that a generated value is one that    *)
(* no stored certificate holds yet.                                        *)
(*                                                                         *)
(* The same module holds the status code of the operator (package status): *)
(* podStatus, generateCondition and RefreshStatus.                         *)
(***************************************************************************)
EXTENDS Integers, Sequences, FiniteSets, TLC

\* ---------------------------------------------------------------- bounds
MaxSerial == 4
MaxTamper == 1
MaxBlockLen == 2
MaxChain == 3
MaxDns == 3
MaxPods == 2
MaxOtherWrites == 6

\* ------------------------------------------------------------- constants
serverCACerts == "observability-server-ca-certs"
clientCACerts == "observability-client-ca-certs"
serverCerts == "observability-server-certs"
grafanaCerts == "observability-grafana-certs"
serverCACertifcateCN == "observability-server-ca-certificate"
clientCACertificateCN == "observability-client-ca-certificate"
serverCertificateCN == "observability-server-certificate"
grafanaCertificateCN == "grafana"

CANames == {serverCACerts, clientCACerts}
LeafNames == {serverCerts, grafanaCerts}
Names == CANames \cup LeafNames

\* the internal service name and the external route of getHosts
ObsAPISvc == "observability-observatorium-api.ns.svc"
ObsAPIHost == "observatorium-api.apps.example.com"

\* ------------------------------------------------------- DER bodies, PEM
\* nil slice / nil pointer
NilDns == <<"<nil>">>
NoKey == 0

Body(kind, sn, cn, pub, by, dns, usage) ==
    [kind |-> kind, sn |-> sn, cn |-> cn, pub |-> pub, by |-> by, dns |-> dns, usage |-> usage]

\* x509.Certificate as DER
CertBody(sn, cn, pub, by, dns, usage) == Body("cert", sn, cn, pub, by, dns, usage)
\* x509.MarshalPKCS1PrivateKey
MarshalPKCS1PrivateKey(k) == Body("key", 0, "", k, 0, <<>>, "")
\* a PEM block whose body is no DER structure at all
BadBody == Body("bad", 0, "", 0, 0, <<>>, "")
\* a PEM block with an empty body
EmptyBody == Body("empty", 0, "", 0, 0, <<>>, "")
\* bytes outside any PEM block
JunkBody == Body("junk", 0, "", 0, 0, <<>>, "")
\* the nil *pem.Block
NilBlock == Body("nil", 0, "", 0, 0, <<>>, "")

Tok(b, k, n) == [b |-> b, k |-> k, n |-> n]
JunkTok == Tok(JunkBody, 1, 1)

\* pem.Encode of one block of n bytes
Encode(b, n) == [i \in 1..n |-> Tok(b, i, n)]

\* the length in bytes of an encoded certificate varies with its content
CertLen(cert) == 1 + (cert.sn % MaxBlockLen)

\* pemEncode: a certificate block and a key block (the key takes one byte)
pemEncode(cert, key) == [certPEM |-> Encode(cert, CertLen(cert)), keyPEM |-> Encode(key, 1)]

\* a complete PEM block starts at position p of data
BlockAt(data, p) ==
    /\ data[p].k = 1
    /\ data[p].b.kind # "junk"
    /\ p + data[p].n - 1 <= Len(data)
    /\ \A j \in 0..(data[p].n - 1) : data[p + j] = Tok(data[p].b, j + 1, data[p].n)

\* pem.Decode: the first block of data and the bytes after it; with no block
\* in data the block is nil and the rest is data itself
Decode(data) ==
    LET starts == {p \in 1..Len(data) : BlockAt(data, p)}
    IN  IF starts = {} THEN [block |-> NilBlock, rest |-> data]
        ELSE LET p == CHOOSE q \in starts : \A r \in starts : q <= r
             IN  [block |-> data[p].b,
                  rest |-> SubSeq(data, p + data[p].n, Len(data))]

\* x509.ParsePKCS1PrivateKey: err or the key
ParsePKCS1PrivateKey(b) ==
    IF b.kind = "key" THEN [err |-> FALSE, key |-> b.pub] ELSE [err |-> TRUE, key |-> NoKey]

\* x509.ParseCertificate: exactly one certificate or err
ParseCertificate(b) ==
    IF b.kind = "cert" THEN [err |-> FALSE, cert |-> b] ELSE [err |-> TRUE, cert |-> NilBlock]

\* x509.ParseCertificates: a list of certificates, empty for an empty body
ParseCertificates(b) ==
    IF b.kind = "cert" THEN [err |-> FALSE, certs |-> <<b>>]
    ELSE IF b.kind = "empty" THEN [err |-> FALSE, certs |-> <<>>]
    ELSE [err |-> TRUE, certs |-> <<>>]

\* ----------------------------------------------------------- the factory
\* createCACertificate that generates a key whether or not it was given one
createCACertificateNewKey(cn, caKey, sn) ==
    [key |-> MarshalPKCS1PrivateKey(sn),
     cert |-> CertBody(sn, cn, sn, sn, <<>>, "ca")]

\* createCACertificate: serial sn; caKey, or the key generated with sn
createCACertificate(cn, caKey, sn) ==
    LET key == IF caKey = NoKey THEN sn ELSE caKey
    IN  [key |-> MarshalPKCS1PrivateKey(key),
         cert |-> CertBody(sn, cn, key, key, <<>>, "ca")]

\* what the array of a slice holds behind the slice's last element
Stale == "<stale>"

\* the DNS names of createCertificate for the slice dns whose array has room for
\* cap elements: dns = append(dns[:1], dns[0:]...); dns[0] = cn.  dns[:1] is
\* out of range when cap = 0; with room in the array the append copies dns one
\* place up, without room it copies dns[:1] and dns into a new array
DNSNames(cn, dns, cap) ==
    IF dns = NilDns THEN [panic |-> FALSE, names |-> <<cn>>]
    ELSE IF cap = 0 THEN [panic |-> TRUE, names |-> <<>>]
    ELSE LET first == IF Len(dns) > 0 THEN dns[1] ELSE Stale
         IN  [panic |-> FALSE, names |-> [<<first>> \o dns EXCEPT ![1] = cn]]

\* createCertificate: panic, or the key and the certificate
createCertificate(isServer, cn, dns, cap, caCert, caKey, key0, sn) ==
    LET key == IF key0 = NoKey THEN sn ELSE key0
        d == DNSNames(cn, dns, cap)
    IN  [panic |-> d.panic,
         key |-> MarshalPKCS1PrivateKey(key),
         cert |-> CertBody(sn, cn, key, caKey, d.names,
                           IF isServer THEN "server" ELSE "client")]

\* ------------------------------------------------------- state variables
VARIABLES
    store,       \* the secrets of the client: name -> [exists, label, ca, crt, key]
                 \* (ca = Data["ca.crt"], crt = Data["tls.crt"], key = Data["tls.key"])
    nextSerial,  \* the next serial number / key that rand yields
    expired,     \* serials of the certificates whose NotAfter lies before time.Now()
    issued,      \* name -> serial stored by the last successful create or renewal,
                 \* 0 when there is none or the secret was edited from outside since
    tampers,     \* number of outside edits of secrets so far
    last,        \* the most recent call: arguments, store before it, results, events
    pure,        \* the call of a function that touches no secret: inputs, result
    rv,          \* name -> resourceVersion of the stored secret, where calls interleave
    procs,       \* process -> the call it is in: what its c.Get answered, and at which rv
    written,     \* the creations and renewals of interleaved calls that returned nil
    mco,         \* the MultiClusterObservability instance in the API server
    refresh      \* the call of RefreshStatus: its place, arguments, locals, events

\* the variables of interleaved calls, and of RefreshStatus
concVars == <<rv, procs, written>>
statusVars == <<mco, refresh>>

\* the variables the operations on secrets leave alone
aux == <<pure, rv, procs, written, mco, refresh>>

\* the variables of the operations on secrets
certVars == <<store, nextSerial, expired, issued, tampers, last>>

vars == <<store, nextSerial, expired, issued, tampers, last, pure, rv, procs, written,
          mco, refresh>>

\* label: the secret carries config.BackupLabelName
Absent == [exists |-> FALSE, label |-> FALSE, ca |-> <<>>, crt |-> <<>>, key |-> <<>>]
\* a secret as createCASecret and createCertSecret build it
Secret(ca, crt, key) == [exists |-> TRUE, label |-> TRUE, ca |-> ca, crt |-> crt, key |-> key]

\* no call of such a function
NoPure == [fn |-> "none"]

\* the processes that call createCASecret and removeExpiredCA at the same time
Procs == {"p1", "p2"}

\* a process between two calls
Idle == [pc |-> "idle", op |-> "", isRenew |-> FALSE, err |-> "nil", obj |-> Absent, rv |-> 0]

InitConc ==
    /\ rv = [n \in Names |-> 0]
    /\ procs = [p \in Procs |-> Idle]
    /\ written = {}

\* no instance, no call of RefreshStatus
NoInstance == [exists |-> FALSE, rv |-> 0, addonSpec |-> [nil |-> TRUE, EnableMetrics |-> FALSE],
               components |-> <<>>, conditions |-> <<>>, others |-> 0]
NoRefresh == [pc |-> "none"]

InitStatus == mco = NoInstance /\ refresh = NoRefresh

InitAux == pure = NoPure /\ InitConc /\ InitStatus

\* the store call of a handler that fails (0: none does)
FailPoints == 0..10

\* ------------------------------------------------- the client (c.Get ...)
\* a handler's view: the store, the counters, the inputs chosen for the call
\* (failAt, and failErr: the error with which the store rejects that write)
\* and the events so far
Ctx(failAt) ==
    [store |-> store, nextSerial |-> nextSerial, issued |-> issued,
     calls |-> 0, failAt |-> failAt, failErr |-> "Error",
     trace |-> <<>>]

Ev(e, name, ok) == [e |-> e, name |-> name, ok |-> ok]
Log(c, e, name, ok) == [c EXCEPT !.trace = Append(@, Ev(e, name, ok))]

\* c.Get: "nil", "NotFound" or another error
Get(c, name) ==
    LET c1 == [c EXCEPT !.calls = @ + 1]
    IN  [c |-> c1,
         err |-> IF c1.calls = c.failAt THEN "Error"
                 ELSE IF ~c.store[name].exists THEN "NotFound" ELSE "nil",
         obj |-> c.store[name]]

\* c.Create: stores obj, which holds the certificate of serial sn
Create(c, name, obj, sn) ==
    LET c1 == [c EXCEPT !.calls = @ + 1]
        ok == c1.calls # c.failAt /\ ~c.store[name].exists
    IN  IF ok THEN [c |-> Log([c1 EXCEPT !.store[name] = obj,
                                         !.issued[name] = sn,
                                         !.nextSerial = sn + 1], "create", name, TRUE),
                    err |-> "nil"]
        ELSE [c |-> Log(c1, "create", name, FALSE),
              err |-> IF c1.calls = c.failAt THEN c.failErr ELSE "AlreadyExists"]

\* c.Update of the data of obj
Update(c, name, obj, sn) ==
    LET c1 == [c EXCEPT !.calls = @ + 1]
        ok == c1.calls # c.failAt /\ c.store[name].exists
    IN  IF ok THEN [c |-> Log([c1 EXCEPT !.store[name] = obj,
                                         !.issued[name] = IF sn = 0 THEN @ ELSE sn,
                                         !.nextSerial = IF sn = 0 THEN @ ELSE sn + 1],
                              "update", name, TRUE),
                    err |-> "nil"]
        ELSE [c |-> Log(c1, "update", name, FALSE),
              err |-> IF c1.calls = c.failAt THEN c.failErr ELSE "NotFound"]

\* mcoutil.AddBackupLabelToSecretObj: a secret without the backup label gets
\* it by an update that leaves Data alone
AddBackupLabelToSecretObj(c, name, obj) ==
    IF obj.label THEN [c |-> c, err |-> "nil"]
    ELSE LET c1 == [c EXCEPT !.calls = @ + 1]
             ok == c1.calls # c.failAt
         IN  [c |-> Log(IF ok THEN [c1 EXCEPT !.store[name].label = TRUE] ELSE c1,
                        "label", name, ok),
              err |-> IF ok THEN "nil" ELSE c.failErr]

Ret(c, err, modified) == [c |-> c, err |-> err, modified |-> modified]

\* ------------------------------------------------------------ createCASecret
\* RenewedCA with Data["tls.crt"] overwritten by the new certificate
RenewedCAOverwrite(obj, certPEM, keyPEM) ==
    [obj EXCEPT !.ca = certPEM, !.crt = certPEM, !.key = keyPEM]

\* RenewedCA with the chain kept in Data["ca.crt"] and the new certificate alone
\* in Data["tls.crt"]
RenewedCASwapped(obj, certPEM, keyPEM) ==
    [obj EXCEPT !.ca = certPEM \o obj.ca, !.crt = certPEM, !.key = keyPEM]

\* RenewedCA with the new certificate behind the old ones
RenewedCAAppend(obj, certPEM, keyPEM) ==
    [obj EXCEPT !.ca = certPEM, !.crt = obj.crt \o certPEM, !.key = keyPEM]

\* RenewedCA without the assignment of Data["tls.key"]
RenewedCAOldKey(obj, certPEM, keyPEM) ==
    [obj EXCEPT !.ca = certPEM, !.crt = certPEM \o obj.crt]

\* the secret a CA renewal writes: Data["ca.crt"] is the new certificate,
\* Data["tls.crt"] the new certificate followed by the old Data["tls.crt"]
RenewedCA(obj, certPEM, keyPEM) ==
    [obj EXCEPT !.ca = certPEM, !.crt = certPEM \o obj.crt, !.key = keyPEM]

\* CABranch without the test of isRenew: an existing secret is always renewed
CABranchAlwaysRenew(getErr, isRenew) ==
    IF getErr = "Error" THEN "fail"
    ELSE IF getErr = "NotFound" THEN "create" ELSE "renew"

\* which way createCASecret goes after c.Get (lines 96-134)
CABranch(getErr, isRenew) ==
    IF getErr = "Error" THEN "fail"
    ELSE IF getErr = "NotFound" THEN "create"
    ELSE IF ~isRenew THEN "keep" ELSE "renew"

\* caSecretGot that makes the update of a renewal once more when it is rejected
caSecretGotRetry(g, sn, isRenew, name, cn) ==
    LET branch == CABranch(g.err, isRenew)
    IN
    IF branch = "fail" THEN Ret(g.c, g.err, FALSE)
    ELSE IF branch = "create" THEN
        LET kc == createCACertificate(cn, NoKey, sn)
            pe == pemEncode(kc.cert, kc.key)
            w == Create(g.c, name, Secret(pe.certPEM, pe.certPEM, pe.keyPEM), sn)
        IN  IF w.err # "nil" THEN Ret(w.c, w.err, FALSE) ELSE Ret(w.c, "nil", TRUE)
    ELSE IF branch = "keep" THEN
        LET a == AddBackupLabelToSecretObj(g.c, name, g.obj)
        IN  IF a.err # "nil" THEN Ret(a.c, a.err, FALSE) ELSE Ret(a.c, "nil", FALSE)
    ELSE
        LET block == Decode(g.obj.key).block
        IN  IF block = NilBlock THEN Ret(g.c, "panic", FALSE)
            ELSE
            LET pk == ParsePKCS1PrivateKey(block)
                caKey == IF pk.err THEN NoKey ELSE pk.key
                kc == createCACertificate(cn, caKey, sn)
                pe == pemEncode(kc.cert, kc.key)
                obj == RenewedCA(g.obj, pe.certPEM, pe.keyPEM)
                w1 == Update(g.c, name, obj, sn)
                w == IF w1.err = "nil" THEN w1 ELSE Update(w1.c, name, obj, sn)
            IN  IF w.err # "nil" THEN Ret(w.c, w.err, FALSE) ELSE Ret(w.c, "nil", TRUE)

\* createCASecret after c.Get has answered g; sn is the serial that rand yields
caSecretGot(g, sn, isRenew, name, cn) ==
    LET branch == CABranch(g.err, isRenew)
    IN
    IF branch = "fail" THEN Ret(g.c, g.err, FALSE)
    ELSE IF branch = "create" THEN
        LET kc == createCACertificate(cn, NoKey, sn)
            pe == pemEncode(kc.cert, kc.key)
            w == Create(g.c, name, Secret(pe.certPEM, pe.certPEM, pe.keyPEM), sn)
        IN  IF w.err # "nil" THEN Ret(w.c, w.err, FALSE) ELSE Ret(w.c, "nil", TRUE)
    ELSE IF branch = "keep" THEN
        LET a == AddBackupLabelToSecretObj(g.c, name, g.obj)
        IN  IF a.err # "nil" THEN Ret(a.c, a.err, FALSE) ELSE Ret(a.c, "nil", FALSE)
    ELSE
        LET block == Decode(g.obj.key).block
        IN  IF block = NilBlock THEN Ret(g.c, "panic", FALSE)    \* block.Bytes of nil
            ELSE
            LET pk == ParsePKCS1PrivateKey(block)
                caKey == IF pk.err THEN NoKey ELSE pk.key
                kc == createCACertificate(cn, caKey, sn)
                pe == pemEncode(kc.cert, kc.key)
                obj == RenewedCA(g.obj, pe.certPEM, pe.keyPEM)
                w == Update(g.c, name, obj, sn)
            IN  IF w.err # "nil" THEN Ret(w.c, w.err, FALSE) ELSE Ret(w.c, "nil", TRUE)

createCASecret(c, isRenew, name, cn) ==
    caSecretGot(Get(c, name), c.nextSerial, isRenew, name, cn)

\* --------------------------------------------------------------------- getCA
CAName(isServer) == IF isServer THEN serverCACerts ELSE clientCACerts

\* getCA: err is "nil", "Error" or "panic"; caCertBytes is the first block of
\* the CA's Data["tls.crt"] with the bytes before it
\* caGot that hands out the whole Data["tls.crt"] of the CA as caCertBytes
caGotWholeChain(g) ==
    LET data == g.obj.crt
        d1 == Decode(data)
        pcs == ParseCertificates(d1.block)
        block2 == Decode(g.obj.key).block
        pk == ParsePKCS1PrivateKey(block2)
        fail(e) == [c |-> g.c, err |-> e, caCert |-> NilBlock, caKey |-> NoKey, caCertBytes |-> <<>>]
    IN  IF g.err # "nil" THEN fail("Error")
        ELSE IF d1.block = NilBlock THEN fail("panic")
        ELSE IF pcs.err THEN fail("Error")
        ELSE IF block2 = NilBlock THEN fail("panic")
        ELSE IF pk.err THEN fail("Error")
        ELSE IF pcs.certs = <<>> THEN fail("panic")
        ELSE [c |-> g.c, err |-> "nil", caCert |-> pcs.certs[1], caKey |-> pk.key,
              caCertBytes |-> data]

\* getCA after c.Get has answered g
caGot(g) ==
    LET data == g.obj.crt
        d1 == Decode(data)
        caCertBytes == SubSeq(data, 1, Len(data) - Len(d1.rest))
        pcs == ParseCertificates(d1.block)
        block2 == Decode(g.obj.key).block
        pk == ParsePKCS1PrivateKey(block2)
        fail(e) == [c |-> g.c, err |-> e, caCert |-> NilBlock, caKey |-> NoKey, caCertBytes |-> <<>>]
    IN  IF g.err # "nil" THEN fail("Error")
        ELSE IF d1.block = NilBlock THEN fail("panic")       \* block1.Bytes of nil
        ELSE IF pcs.err THEN fail("Error")
        ELSE IF block2 = NilBlock THEN fail("panic")         \* block2.Bytes of nil
        ELSE IF pk.err THEN fail("Error")
        ELSE IF pcs.certs = <<>> THEN fail("panic")          \* caCerts[0] of an empty list
        ELSE [c |-> g.c, err |-> "nil", caCert |-> pcs.certs[1], caKey |-> pk.key,
              caCertBytes |-> caCertBytes]

getCA(c, isServer) == caGot(Get(c, CAName(isServer)))

\* ---------------------------------------------------------- createCertSecret
\* DriftCheck without the test of the secret's name
DriftCheckAnyName(name, isRenew, obj, dns) ==
    IF isRenew THEN "renew"
    ELSE LET block == Decode(obj.crt).block
             pc == ParseCertificate(block)
             required == IF dns = NilDns THEN <<>> ELSE dns
         IN  IF block = NilBlock THEN "keep"
             ELSE IF pc.err THEN (IF required = <<>> THEN "renew" ELSE "panic")
             ELSE IF \E i \in 1..Len(required) :
                        \A j \in 1..Len(pc.cert.dns) : pc.cert.dns[j] # required[i]
                  THEN "renew" ELSE "keep"

\* DriftCheck that looks for the first required name only
DriftCheckFirstOnly(name, isRenew, obj, dns) ==
    IF isRenew THEN "renew"
    ELSE IF name # serverCerts THEN "keep"
    ELSE LET block == Decode(obj.crt).block
             pc == ParseCertificate(block)
             required == IF dns = NilDns THEN <<>> ELSE dns
         IN  IF block = NilBlock THEN "keep"
             ELSE IF pc.err THEN (IF required = <<>> THEN "renew" ELSE "panic")
             ELSE IF required # <<>>
                     /\ \A j \in 1..Len(pc.cert.dns) : pc.cert.dns[j] # required[1]
                  THEN "renew" ELSE "keep"

\* DriftCheck that renews when the stored names are not exactly the required ones
DriftCheckExact(name, isRenew, obj, dns) ==
    IF isRenew THEN "renew"
    ELSE IF name # serverCerts THEN "keep"
    ELSE LET block == Decode(obj.crt).block
             pc == ParseCertificate(block)
             required == IF dns = NilDns THEN <<>> ELSE dns
         IN  IF block = NilBlock THEN "keep"
             ELSE IF pc.err THEN (IF required = <<>> THEN "renew" ELSE "panic")
             ELSE IF Len(pc.cert.dns) # Len(required) + 1
                     \/ \E i \in 1..Len(required) :
                          \A j \in 1..Len(pc.cert.dns) : pc.cert.dns[j] # required[i]
                  THEN "renew" ELSE "keep"

\* the check of the stored server certificate (lines 254-272): "keep", "renew",
\* or "panic" when the loop reads the DNS names of a certificate that did not parse
DriftCheck(name, isRenew, obj, dns) ==
    IF isRenew THEN "renew"
    ELSE IF name # serverCerts THEN "keep"
    ELSE LET block == Decode(obj.crt).block
             pc == ParseCertificate(block)
             required == IF dns = NilDns THEN <<>> ELSE dns
         IN  IF block = NilBlock THEN "keep"
             ELSE IF pc.err THEN (IF required = <<>> THEN "renew" ELSE "panic")
             ELSE IF \E i \in 1..Len(required) :
                        \A j \in 1..Len(pc.cert.dns) : pc.cert.dns[j] # required[i]
                  THEN "renew" ELSE "keep"

\* the leaf a renewal writes
RenewedLeaf(obj, caCertBytes, certPEM, keyPEM) ==
    [obj EXCEPT !.ca = caCertBytes, !.crt = certPEM, !.key = keyPEM]

\* createCertSecret: err is "nil", "Error" or "panic"
\* createCertSecret creating the secret: ca is what getCA returned; the slices
\* the callers pass are full (capacity = length)
certSecretCreate(ca, sn, name, isServer, cn, dns) ==
    IF ca.err # "nil" THEN Ret(ca.c, ca.err, FALSE)
    ELSE
    LET kc == createCertificate(isServer, cn, dns, Len(dns), ca.caCert, ca.caKey, NoKey, sn)
        pe == pemEncode(kc.cert, kc.key)
        w == Create(ca.c, name, Secret(ca.caCertBytes, pe.certPEM, pe.keyPEM), sn)
    IN  IF kc.panic THEN Ret(ca.c, "panic", FALSE)         \* dns[:1] of an empty slice
        ELSE IF w.err # "nil" THEN Ret(w.c, w.err, FALSE) ELSE Ret(w.c, "nil", FALSE)

\* createCertSecret renewing the secret obj: ca is what getCA returned
certSecretRenew(obj, ca, sn, name, isServer, cn, dns) ==
    IF ca.err # "nil" THEN Ret(ca.c, ca.err, FALSE)
    ELSE
    LET block == Decode(obj.key).block
    IN  IF block = NilBlock THEN Ret(ca.c, "panic", FALSE)   \* block.Bytes of nil
        ELSE
        LET pk == ParsePKCS1PrivateKey(block)
            crtkey == IF pk.err THEN NoKey ELSE pk.key
            kc == createCertificate(isServer, cn, dns, Len(dns), ca.caCert, ca.caKey, crtkey, sn)
            pe == pemEncode(kc.cert, kc.key)
            w == Update(ca.c, name, RenewedLeaf(obj, ca.caCertBytes, pe.certPEM, pe.keyPEM), sn)
        IN  IF kc.panic THEN Ret(ca.c, "panic", FALSE)       \* dns[:1] of an empty slice
            ELSE IF w.err # "nil" THEN Ret(w.c, w.err, FALSE) ELSE Ret(w.c, "nil", FALSE)

\* createCertSecret after c.Get has answered g; sn is the serial that rand yields
certSecretGot(g, sn, isRenew, name, isServer, cn, dns) ==
    IF g.err = "Error" THEN Ret(g.c, g.err, FALSE)
    ELSE IF g.err = "NotFound"
    THEN certSecretCreate(getCA(g.c, isServer), sn, name, isServer, cn, dns)
    ELSE
        LET drift == DriftCheck(name, isRenew, g.obj, dns)
        IN
        IF drift = "panic" THEN Ret(g.c, "panic", FALSE)
        ELSE IF drift = "keep" THEN
            LET a == AddBackupLabelToSecretObj(g.c, name, g.obj)
            IN  IF a.err # "nil" THEN Ret(a.c, a.err, FALSE) ELSE Ret(a.c, "nil", FALSE)
        ELSE certSecretRenew(g.obj, getCA(g.c, isServer), sn, name, isServer, cn, dns)

createCertSecret(c, isRenew, name, isServer, cn, dns) ==
    certSecretGot(Get(c, name), c.nextSerial, isRenew, name, isServer, cn, dns)

\* time.Now().After(cert.NotAfter)
Expired(cert, exp) == cert.sn \in exp

\* whether the loop drops a block: "drop", "keep", or "panic" (block.Bytes of a
\* nil block, certs[0] of an empty list)
removeFlag(block, exp) ==
    LET pcs == ParseCertificates(block)
    IN  IF block = NilBlock THEN "panic"
        ELSE IF pcs.err THEN "drop"
        ELSE IF pcs.certs = <<>> THEN "panic"
        ELSE IF Expired(pcs.certs[1], exp) THEN "drop" ELSE "keep"

\* append(dst, src...) where dst = mem[:n] has room in its array: the bytes of
\* src are written in place behind the first n bytes of mem
AppendInPlace(mem, n, src) ==
    [i \in 1..Len(mem) |-> IF i > n /\ i <= n + Len(src) THEN src[i - n] ELSE mem[i]]

\* the loop of removeExpiredCA over the array mem of data: Data["tls.crt"] is
\* mem[:n], restData is mem[off:]
RECURSIVE pruneLoop(_, _, _, _)
pruneLoop(mem, n, off, exp) ==
    LET restData == SubSeq(mem, off + 1, Len(mem))
        d == Decode(restData)
        index == Len(mem) - Len(restData)
        end == Len(mem) - Len(d.rest)
        flag == removeFlag(d.block, exp)
        kept == SubSeq(mem, index + 1, end)
        mem1 == IF flag = "keep" THEN AppendInPlace(mem, n, kept) ELSE mem
        n1 == IF flag = "keep" THEN n + Len(kept) ELSE n
    IN  IF flag = "panic" THEN [panic |-> TRUE, crt |-> <<>>]
        ELSE IF Len(d.rest) = 0 THEN [panic |-> FALSE, crt |-> SubSeq(mem1, 1, n1)]
        ELSE pruneLoop(mem1, n1, end, exp)

\* prunedChain with the first block inspected like the others
prunedChainInspectFirst(data, exp) ==
    IF Len(data) > 0 THEN pruneLoop(data, 0, 0, exp)
    ELSE [panic |-> FALSE, crt |-> data]

\* the chain removeExpiredCA computes from data
prunedChain(data, exp) ==
    LET restData == Decode(data).rest
        first == Len(data) - Len(restData)
    IN  IF Len(restData) > 0 THEN pruneLoop(data, first, first, exp)
        ELSE [panic |-> FALSE, crt |-> SubSeq(data, 1, first)]

\* removeExpiredCA after c.Get has answered g
expiredCAGot(g, name, exp) ==
    LET data == g.obj.crt
        r == prunedChain(data, exp)
    IN  IF g.err # "nil" THEN Ret(g.c, "Error", FALSE)
        ELSE IF r.panic THEN Ret(g.c, "panic", FALSE)
        ELSE IF Len(data) # Len(r.crt)
             THEN Ret(Update(g.c, name, [g.obj EXCEPT !.crt = r.crt], 0).c, "nil", FALSE)
        ELSE Ret(g.c, "nil", FALSE)

\* removeExpiredCA that stores the pruned chain in Data["ca.crt"] as well
removeExpiredCABothBlobs(c, name, exp) ==
    LET g == Get(c, name)
        data == g.obj.crt
        r == prunedChain(data, exp)
    IN  IF g.err # "nil" THEN Ret(g.c, "Error", FALSE)
        ELSE IF r.panic THEN Ret(g.c, "panic", FALSE)
        ELSE IF Len(data) # Len(r.crt)
             THEN Ret(Update(g.c, name, [g.obj EXCEPT !.crt = r.crt, !.ca = r.crt], 0).c,
                      "nil", FALSE)
        ELSE Ret(g.c, "nil", FALSE)

\* removeExpiredCA: returns nothing; err tells how the call ended
removeExpiredCA(c, name, exp) == expiredCAGot(Get(c, name), name, exp)

\* ------------------------------------------------------------------ getHosts
\* getHosts that goes on with the service name when the route is not found
getHostsIgnoreErr(ingressCtlCrdExists, routeErr) ==
    IF ~ingressCtlCrdExists \/ routeErr THEN [err |-> "nil", hosts |-> <<ObsAPISvc>>]
    ELSE [err |-> "nil", hosts |-> <<ObsAPISvc, ObsAPIHost>>]

\* getHosts: the service name, and the route when the ingress controller CRD
\* exists; looking up the route may fail
getHosts(ingressCtlCrdExists, routeErr) ==
    IF ~ingressCtlCrdExists THEN [err |-> "nil", hosts |-> <<ObsAPISvc>>]
    ELSE IF routeErr THEN [err |-> "Error", hosts |-> NilDns]
    ELSE [err |-> "nil", hosts |-> <<ObsAPISvc, ObsAPIHost>>]

\* -------------------------------------------------- CreateObservabilityCerts
\* the "ret" event of a step of the pass
Step(r, name) == Log(r.c, "ret", name, r.err = "nil")

\* the element of a set of one element: each step of a pass is evaluated once
The(S) == CHOOSE x \in S : TRUE

\* CreateObservabilityCerts with the server certificate ensured before the client CA
CreateObservabilityCertsLeafFirst(c, ingressCtlCrdExists, routeErr) ==
    The({
      IF r1.err # "nil" THEN Ret(Step(r1, serverCACerts), r1.err, FALSE)
      ELSE The({
        IF h.err # "nil" THEN Ret(c3, h.err, FALSE)
        ELSE The({
          IF r3.err # "nil" THEN Ret(Step(r3, serverCerts), r3.err, FALSE)
          ELSE The({
            IF r2.err # "nil" THEN Ret(Step(r2, clientCACerts), r2.err, FALSE)
            ELSE The({
              Ret(Step(r4, grafanaCerts), r4.err, FALSE)
              : r4 \in {createCertSecret(Step(r2, clientCACerts), r2.modified, grafanaCerts,
                                         FALSE, grafanaCertificateCN, NilDns)}})
            : r2 \in {createCASecret(Step(r3, serverCerts), FALSE, clientCACerts,
                                     clientCACertificateCN)}})
          : r3 \in {createCertSecret(c3, r1.modified, serverCerts, TRUE,
                                     serverCertificateCN, h.hosts)}})
        : h \in {getHosts(ingressCtlCrdExists, routeErr)},
          c3 \in {Log(Step(r1, serverCACerts), "hosts", "",
                      getHosts(ingressCtlCrdExists, routeErr).err = "nil")}})
      : r1 \in {createCASecret(c, FALSE, serverCACerts, serverCACertifcateCN)}})

\* CreateObservabilityCerts: the server CA, the client CA, the hosts, the server
\* certificate, the grafana certificate; the first error ends the pass
CreateObservabilityCerts(c, ingressCtlCrdExists, routeErr) ==
    The({
      IF r1.err # "nil" THEN Ret(Step(r1, serverCACerts), r1.err, FALSE)
      ELSE The({
        IF r2.err # "nil" THEN Ret(Step(r2, clientCACerts), r2.err, FALSE)
        ELSE The({
          IF h.err # "nil" THEN Ret(c3, h.err, FALSE)
          ELSE The({
            IF r3.err # "nil" THEN Ret(Step(r3, serverCerts), r3.err, FALSE)
            ELSE The({
              Ret(Step(r4, grafanaCerts), r4.err, FALSE)
              : r4 \in {createCertSecret(Step(r3, serverCerts), r2.modified, grafanaCerts,
                                         FALSE, grafanaCertificateCN, NilDns)}})
            : r3 \in {createCertSecret(c3, r1.modified, serverCerts, TRUE,
                                       serverCertificateCN, h.hosts)}})
          : h \in {getHosts(ingressCtlCrdExists, routeErr)},
            c3 \in {Log(Step(r2, clientCACerts), "hosts", "",
                        getHosts(ingressCtlCrdExists, routeErr).err = "nil")}})
        : r2 \in {createCASecret(Step(r1, serverCACerts), FALSE, clientCACerts,
                                 clientCACertificateCN)}})
      : r1 \in {createCASecret(c, FALSE, serverCACerts, serverCACertifcateCN)}})

\* ------------------------------------------------------------------- actions
CN(name) == IF name = serverCACerts THEN serverCACertifcateCN
            ELSE IF name = clientCACerts THEN clientCACertificateCN
            ELSE IF name = serverCerts THEN serverCertificateCN
            ELSE grafanaCertificateCN

\* the lists getHosts returns
HostLists == {<<ObsAPISvc>>, <<ObsAPISvc, ObsAPIHost>>}

\* the calls of createCertSecret: the server certificate with the hosts, the
\* grafana certificate with no dns
ServerArgs == {[name |-> serverCerts, isServer |-> TRUE, dns |-> d] : d \in HostLists}
GrafanaArgs == {[name |-> grafanaCerts, isServer |-> FALSE, dns |-> NilDns]}

Call(op, name, isRenew, isServer, dns, failAt, r) ==
    [op |-> op, name |-> name, isRenew |-> isRenew, isServer |-> isServer, dns |-> dns,
     ingress |-> FALSE, routeErr |-> FALSE, failAt |-> failAt, failErr |-> r.c.failErr,
     pre |-> store, exp |-> expired,
     err |-> r.err, modified |-> r.modified, trace |-> r.c.trace]

\* what a call leaves behind; rand has no more than cap serials to give
CommitUpTo(r, call, cap) ==
    /\ r.c.nextSerial <= cap + 1
    /\ store' = r.c.store
    /\ nextSerial' = r.c.nextSerial
    /\ issued' = r.c.issued
    /\ last' = call
    /\ UNCHANGED <<expired, tampers>>
    /\ UNCHANGED aux

Commit(r, call) == CommitUpTo(r, call, MaxSerial)

\* a step of the outside world
EnvLast(st, exp) ==
    [op |-> "env", name |-> "", isRenew |-> FALSE, isServer |-> FALSE, dns |-> NilDns,
     ingress |-> FALSE, routeErr |-> FALSE, failAt |-> 0, failErr |-> "Error",
     pre |-> st, exp |-> exp, err |-> "nil", modified |-> FALSE, trace |-> <<>>]

Init ==
    /\ store = [n \in Names |-> Absent]
    /\ nextSerial = 1
    /\ expired = {}
    /\ issued = [n \in Names |-> 0]
    /\ tampers = 0
    /\ last = EnvLast([n \in Names |-> Absent], {})
    /\ InitAux

\* createCASecret called for the CA secret name, to ensure or to renew it; the
\* store call that fails, if any, fails with an error of errs
EnsureCAErr(name, errs) ==
    \E isRenew \in BOOLEAN, failAt \in 0..2, e \in errs :
        LET r == createCASecret([Ctx(failAt) EXCEPT !.failErr = e], isRenew, name, CN(name))
        IN  Commit(r, Call("createCASecret", name, isRenew, FALSE, NilDns, failAt, r))

EnsureCA(name) == EnsureCAErr(name, {"Error"})

\* createCertSecret called for a leaf secret
EnsureLeafErr(a, errs) ==
    \E isRenew \in BOOLEAN, failAt \in 0..3, e \in errs :
        LET r == createCertSecret([Ctx(failAt) EXCEPT !.failErr = e], isRenew, a.name,
                                  a.isServer, CN(a.name), a.dns)
        IN  Commit(r, Call("createCertSecret", a.name, isRenew, a.isServer, a.dns, failAt, r))

EnsureLeaf(a) == EnsureLeafErr(a, {"Error"})

\* one pass of CreateObservabilityCerts
PassUpTo(cap) ==
    \E ingressCtlCrdExists \in BOOLEAN, failAt \in FailPoints :
    \E routeErr \in (IF ingressCtlCrdExists THEN BOOLEAN ELSE {FALSE}) :
        LET r == CreateObservabilityCerts(Ctx(failAt), ingressCtlCrdExists,
                                          routeErr)
        IN  CommitUpTo(r, [Call("CreateObservabilityCerts", "", FALSE, FALSE, NilDns, failAt, r)
                               EXCEPT !.ingress = ingressCtlCrdExists, !.routeErr = routeErr],
                       cap)

Pass == PassUpTo(MaxSerial)

\* removeExpiredCA called for the CA secret name
Prune(name) ==
    \E failAt \in 0..2 :
        LET r == removeExpiredCA(Ctx(failAt), name, expired)
        IN  Commit(r, Call("removeExpiredCA", name, FALSE, FALSE, NilDns, failAt, r))

\* time passes the NotAfter of a CA certificate in the stored chain of name
ChainSerials(name) ==
    {store[name].crt[i].b.sn : i \in {j \in 1..Len(store[name].crt) :
                                          store[name].crt[j].b.kind = "cert"}}

Expire(name) ==
    \E sn \in ChainSerials(name) \ expired :
        /\ expired' = expired \cup {sn}
        /\ last' = EnvLast(store, expired')
        /\ UNCHANGED <<store, nextSerial, issued, tampers>>
        /\ UNCHANGED aux

\* what an outside edit may leave in Data["tls.crt"] or Data["tls.key"]: nothing,
\* bytes that are no PEM, a PEM block that is no DER, a PEM block with no body
TamperBlobs == {<<>>, <<JunkTok>>, Encode(BadBody, 1), Encode(EmptyBody, 1)}

Edit(name, obj) ==
    /\ tampers < MaxTamper
    /\ store[name].exists
    /\ store' = [store EXCEPT ![name] = obj]
    /\ issued' = [issued EXCEPT ![name] = 0]
    /\ tampers' = tampers + 1
    /\ last' = EnvLast(store', expired)
    /\ UNCHANGED <<nextSerial, expired>>
    /\ UNCHANGED aux

\* someone replaces the key of the secret name
TamperKey(name) ==
    \E blob \in TamperBlobs : Edit(name, [store[name] EXCEPT !.key = blob])

\* someone replaces the certificate of the secret name
TamperCrt(name) ==
    \E blob \in TamperBlobs : Edit(name, [store[name] EXCEPT !.crt = blob])

\* someone leaves bytes behind the last certificate of the chain of name
AppendJunk(name) == Edit(name, [store[name] EXCEPT !.crt = @ \o <<JunkTok>>])

\* someone puts bytes that are no PEM in front of the key of the secret name
PrefixKey(name) == Edit(name, [store[name] EXCEPT !.key = <<JunkTok>> \o @])

\* someone deletes the secret name
Delete(name) == Edit(name, Absent)

\* someone takes the backup label off the secret name; its data stays
Unlabel(name) ==
    /\ tampers < MaxTamper
    /\ store[name].exists /\ store[name].label
    /\ store' = [store EXCEPT ![name].label = FALSE]
    /\ tampers' = tampers + 1
    /\ last' = EnvLast(store', expired)
    /\ UNCHANGED <<nextSerial, expired, issued>>
    /\ UNCHANGED aux

\* ------------------------------------------------------- package status
\* the fields of MultiClusterObservabilityComponentStatus
Components ==
    {"Grafana", "ObservatoriumAPI", "ThanosQuery", "ThanosQueryFrontend",
     "ThanosReceiveController", "ObservatoriumOperator", "RBACQueryProxy", "Alertmanager",
     "ThanosCompact", "ThanosReceive", "ThanosRule", "ThanosStoreMemcached",
     "ThanosStoreShard", "MultiClusterObservabilityAddon"}

\* mcov1beta2.PodStatus
PodFailed == "Failed"
PodPending == "Pending"
PodRunning == "Running"
PodReady == "Ready"
PodStatusUnknown == "Unknown"
PodStatuses == {PodFailed, PodPending, PodRunning, PodReady, PodStatusUnknown}

\* podStatus of a pod [phase, ready]: ready lists the Ready of its
\* ContainerStatuses
podStatus(pod) ==
    IF pod.phase = "Failed" THEN PodFailed
    ELSE IF pod.phase = "Pending" THEN PodPending
    ELSE IF pod.phase # "Running" THEN PodStatusUnknown
    ELSE IF \E i \in 1..Len(pod.ready) : ~pod.ready[i] THEN PodRunning
    ELSE PodReady

\* appendPodStatus: the PodStatusMap of the pods of component, each pod under
\* its status in the order of the list (a pod is named by its place in pods)
appendPodStatus(pods, component) ==
    [st \in PodStatuses |->
        SelectSeq([i \in 1..Len(pods) |-> i],
                  LAMBDA i : pods[i].component = component /\ podStatus(pods[i]) = st)]

\* the zero metav1.Time
ZeroTime == 0

\* metav1.Condition{Type: .., Message: .., Reason: ..}: Status and
\* LastTransitionTime are the zero values
Condition(type, message, reason) ==
    [Type |-> type, Status |-> "", LastTransitionTime |-> ZeroTime,
     Message |-> message, Reason |-> reason]

conditionFailed ==
    Condition("ConditionFailed",
              "One or more MultiClusterObservability components failed",
              "ReasonFailedComponents")
conditionPending ==
    Condition("ConditionPending",
              "One or more MultiClusterObservability components pending on dependencies",
              "ReasonPendingComponents")
conditionRunning ==
    Condition("ConditionPending",
              "All components are running, but some readiness checks are failing",
              "ReasonPendingComponents")
conditionReady ==
    Condition("ConditionReady", "All components ready", "ReasonReadyComponents")
conditionMetricsDisabled ==
    Condition("ConditionReady", "Collect metrics from the managed clusters is disabled",
              "ReasonMetricsDisabled")

\* the nil *DegradedError, the nil *ObservabilityAddonSpec
NoDegradedError == [nil |-> TRUE, Message |-> "", Reason |-> ""]
NoAddonSpec == [nil |-> TRUE, EnableMetrics |-> FALSE]

\* the sum over the fields of cs of the number of pods of status st
podCount(cs, st) ==
    Len(cs.Grafana[st]) + Len(cs.ObservatoriumAPI[st]) + Len(cs.ThanosQuery[st])
    + Len(cs.ThanosQueryFrontend[st]) + Len(cs.ThanosReceiveController[st])
    + Len(cs.ObservatoriumOperator[st]) + Len(cs.RBACQueryProxy[st])
    + Len(cs.Alertmanager[st]) + Len(cs.ThanosCompact[st]) + Len(cs.ThanosReceive[st])
    + Len(cs.ThanosRule[st]) + Len(cs.ThanosStoreMemcached[st])
    + Len(cs.ThanosStoreShard[st]) + Len(cs.MultiClusterObservabilityAddon[st])

\* generateCondition that looks for pending pods before failed ones
generateConditionPendingFirst(cs, addonSpec, degradedErr) ==
    IF ~degradedErr.nil
    THEN Condition("ConditionDegraded", degradedErr.Message, degradedErr.Reason)
    ELSE IF ~addonSpec.nil /\ ~addonSpec.EnableMetrics THEN conditionMetricsDisabled
    ELSE IF podCount(cs, PodPending) # 0 THEN conditionPending
    ELSE IF podCount(cs, PodFailed) # 0 THEN conditionFailed
    ELSE IF podCount(cs, PodRunning) > 0 THEN conditionRunning
    ELSE conditionReady

\* generateCondition: the condition (the error it returns is always nil);
\* addonSpec is stack.Spec.ObservabilityAddonSpec
generateCondition(cs, addonSpec, degradedErr) ==
    IF ~degradedErr.nil
    THEN Condition("ConditionDegraded", degradedErr.Message, degradedErr.Reason)
    ELSE IF ~addonSpec.nil /\ ~addonSpec.EnableMetrics THEN conditionMetricsDisabled
    ELSE IF podCount(cs, PodFailed) # 0 THEN conditionFailed
    ELSE IF podCount(cs, PodPending) # 0 THEN conditionPending
    ELSE IF podCount(cs, PodRunning) > 0 THEN conditionRunning
    ELSE conditionReady

\* generateConditions: the list of the one condition of generateCondition
generateConditions(cs, addonSpec, degradedErr) ==
    <<generateCondition(cs, addonSpec, degradedErr)>>

\* a component status with the pods of every component
ComponentStatus(pods) == [comp \in Components |-> appendPodStatus(pods, comp)]

\* the pods, addon specs and degraded errors generateCondition is tried on
PodKinds ==
    {[phase |-> ph, ready |-> <<>>] : ph \in {"Failed", "Pending", "Succeeded"}}
    \cup {[phase |-> "Running", ready |-> r] : r \in {<<>>, <<TRUE>>, <<TRUE, FALSE>>}}
PodsOf == {[component |-> comp, phase |-> k.phase, ready |-> k.ready] :
              comp \in Components, k \in PodKinds}
PodLists == UNION {[1..n -> PodsOf] : n \in 0..MaxPods}
AddonSpecs == {NoAddonSpec} \cup {[nil |-> FALSE, EnableMetrics |-> b] : b \in BOOLEAN}
DegradedErrors ==
    {NoDegradedError, [nil |-> FALSE, Message |-> "invalid configuration",
                       Reason |-> "ReasonInvalid"]}

InitCondition ==
    /\ store = [n \in Names |-> Absent]
    /\ nextSerial = 1
    /\ expired = {}
    /\ issued = [n \in Names |-> 0]
    /\ tampers = 0
    /\ last = EnvLast(store, expired)
    /\ InitConc /\ InitStatus
    /\ \E pods \in PodLists, addonSpec \in AddonSpecs, degradedErr \in DegradedErrors :
          pure = [fn |-> "generateCondition", pods |-> pods, addonSpec |-> addonSpec,
                  degradedErr |-> degradedErr, done |-> FALSE, out |-> <<>>]

\* generateConditions called on the component status of the pods of pure
GenerateConditions ==
    /\ pure.fn = "generateCondition" /\ ~pure.done
    /\ pure' = [pure EXCEPT !.done = TRUE,
                            !.out = generateConditions(ComponentStatus(pure.pods),
                                                       pure.addonSpec, pure.degradedErr)]
    /\ UNCHANGED <<certVars, concVars, statusVars>>

NextCondition == GenerateConditions

SpecCondition == InitCondition /\ [][NextCondition]_vars

\* ------------------------------------------------------------ RefreshStatus
\* retry.DefaultRetry.Steps: retry.RetryOnConflict calls its function that many
\* times at most, as long as it returns a Conflict, and then returns the last one
RetrySteps == 5

ConditionTrue == "True"

\* generateComponentStatus: the pods of the addon component only
generateComponentStatus(pods) ==
    [comp \in Components |->
        IF comp = "MultiClusterObservabilityAddon" THEN appendPodStatus(pods, comp)
        ELSE [st \in PodStatuses |-> <<>>]]

\* for _, c := range activeConditions { c.LastTransitionTime = metaTime;
\* c.Status = metav1.ConditionTrue }: c is a copy of the element, the two
\* assignments change the copy and the list is what it was
StampLoop(activeConditions, metaTime) ==
    LET c == [i \in 1..Len(activeConditions) |->
                 [activeConditions[i] EXCEPT !.LastTransitionTime = metaTime,
                                             !.Status = ConditionTrue]]
    IN  activeConditions

\* mergeConditions: some function of its three arguments
mergeConditions(old, active, now) == [old |-> old, active |-> active, now |-> now]

\* statusUpdater on instance, with the cs, activeConditions and metaTime of the call
statusUpdater(instance, cs, activeConditions, metaTime) ==
    [instance EXCEPT !.components = cs,
                     !.conditions = mergeConditions(@, activeConditions, metaTime)]

\* the object c.Get fills from the instance in the API server
Got(m) == [rv |-> m.rv, addonSpec |-> m.addonSpec, components |-> m.components,
           conditions |-> m.conditions]

\* an API call of RefreshStatus and its result: the resourceVersion read or
\* sent, the conditions read or found in the API server
Api(e, res, rvOf, onto) == [e |-> e, res |-> res, rv |-> rvOf, onto |-> onto]

\* RefreshStatus returns err
Return(err, ev) ==
    refresh' = [refresh EXCEPT !.pc = "done", !.err = err, !.log = Append(@, ev)]

\* c.Status().Update of refresh.instance: "Error" when the call fails,
\* "NotFound", "Conflict" when the instance has another resourceVersion, "nil"
StatusUpdate(fails) ==
    IF fails THEN "Error"
    ELSE IF ~mco.exists THEN "NotFound"
    ELSE IF refresh.instance.rv # mco.rv THEN "Conflict"
    ELSE "nil"

\* the API server takes the status of refresh.instance
Written ==
    mco' = [mco EXCEPT !.rv = @ + 1, !.components = refresh.instance.components,
                       !.conditions = refresh.instance.conditions]

\* lines 636-665: c.Get, generateComponentStatus (which lists the pods),
\* generateConditions, the loop over activeConditions, statusUpdater
RefreshGet ==
    /\ refresh.pc = "start"
    /\ \E getFails \in BOOLEAN, listFails \in BOOLEAN :
          LET cs == generateComponentStatus(refresh.pods)
              active == StampLoop(generateConditions(cs, mco.addonSpec, refresh.degradedErr),
                                  refresh.now)
          IN  IF getFails THEN Return("Error", Api("get", "Error", 0, <<>>))
              ELSE IF ~mco.exists THEN Return("nil", Api("get", "NotFound", 0, <<>>))
              ELSE IF listFails THEN Return("Error", Api("get", "nil", mco.rv, <<>>))
              ELSE refresh' = [refresh EXCEPT
                      !.pc = "update", !.cs = cs, !.activeConditions = active,
                      !.instance = statusUpdater(Got(mco), cs, active, refresh.now),
                      !.log = Append(@, Api("get", "nil", mco.rv, mco.conditions))]
    /\ UNCHANGED <<certVars, pure, concVars, mco>>

\* lines 666-676: the first c.Status().Update
RefreshUpdate ==
    /\ refresh.pc = "update"
    /\ \E fails \in BOOLEAN :
          LET res == StatusUpdate(fails)
              ev == Api("update", res, refresh.instance.rv, mco.conditions)
          IN  /\ IF res = "Conflict"
                 THEN refresh' = [refresh EXCEPT !.pc = "retryGet", !.log = Append(@, ev)]
                 ELSE Return(res, ev)
              /\ IF res = "nil" THEN Written ELSE UNCHANGED mco
    /\ UNCHANGED <<certVars, pure, concVars>>

\* RetryGet without the c.Get: the instance is sent again as it is
RetryNoGet ==
    /\ refresh.pc = "retryGet"
    /\ refresh' = [refresh EXCEPT !.pc = "retryUpdate", !.tries = @ + 1]
    /\ UNCHANGED <<certVars, pure, concVars, mco>>

\* lines 679-683: the function of retry.RetryOnConflict, its c.Get and statusUpdater
RetryGet ==
    /\ refresh.pc = "retryGet"
    /\ \E fails \in BOOLEAN :
          IF fails THEN Return("Error", Api("get", "Error", 0, <<>>))
          ELSE IF ~mco.exists THEN Return("NotFound", Api("get", "NotFound", 0, <<>>))
          ELSE refresh' = [refresh EXCEPT
                  !.pc = "retryUpdate", !.tries = @ + 1,
                  !.instance = statusUpdater(Got(mco), refresh.cs, refresh.activeConditions,
                                             refresh.now),
                  !.log = Append(@, Api("get", "nil", mco.rv, mco.conditions))]
    /\ UNCHANGED <<certVars, pure, concVars, mco>>

\* line 684: the c.Status().Update of the function of retry.RetryOnConflict
RetryUpdate ==
    /\ refresh.pc = "retryUpdate"
    /\ \E fails \in BOOLEAN :
          LET res == StatusUpdate(fails)
              ev == Api("update", res, refresh.instance.rv, mco.conditions)
          IN  /\ IF res = "Conflict" /\ refresh.tries < RetrySteps
                 THEN refresh' = [refresh EXCEPT !.pc = "retryGet", !.log = Append(@, ev)]
                 ELSE Return(res, ev)
              /\ IF res = "nil" THEN Written ELSE UNCHANGED mco
    /\ UNCHANGED <<certVars, pure, concVars>>

\* another client writes the instance in the meantime
OtherWrite ==
    /\ refresh.pc \notin {"none", "done"}
    /\ mco.exists /\ mco.others < MaxOtherWrites
    /\ mco' = [mco EXCEPT !.rv = @ + 1, !.others = @ + 1,
                          !.conditions = <<conditionPending>>]
    /\ UNCHANGED <<certVars, pure, concVars, refresh>>

\* another client deletes the instance in the meantime
DeleteInstance ==
    /\ refresh.pc \notin {"none", "done"}
    /\ mco.exists
    /\ mco' = [mco EXCEPT !.exists = FALSE]
    /\ UNCHANGED <<certVars, pure, concVars, refresh>>

\* the pods, the degradedErr and the instance RefreshStatus is called with
RefreshPods ==
    {<<>>,
     <<[component |-> "MultiClusterObservabilityAddon", phase |-> "Failed", ready |-> <<>>]>>,
     <<[component |-> "MultiClusterObservabilityAddon", phase |-> "Running",
        ready |-> <<TRUE, FALSE>>]>>}

InitRefresh ==
    /\ store = [n \in Names |-> Absent]
    /\ nextSerial = 1
    /\ expired = {}
    /\ issued = [n \in Names |-> 0]
    /\ tampers = 0
    /\ last = EnvLast(store, expired)
    /\ pure = NoPure
    /\ InitConc
    /\ \E exists \in BOOLEAN, conds \in {<<>>, <<conditionReady>>}, addonSpec \in AddonSpecs :
          mco = IF exists
                THEN [NoInstance EXCEPT !.exists = TRUE, !.rv = 1, !.addonSpec = addonSpec,
                                        !.conditions = conds]
                ELSE NoInstance
    /\ \E pods \in RefreshPods, degradedErr \in DegradedErrors, now \in {1, 2} :
          refresh = [pc |-> "start", pods |-> pods, degradedErr |-> degradedErr, now |-> now,
                     cs |-> <<>>, activeConditions |-> <<>>, instance |-> Got(NoInstance),
                     tries |-> 0, err |-> "nil", log |-> <<>>]

NextRefresh ==
    \/ RefreshGet
    \/ RefreshUpdate
    \/ RetryGet
    \/ RetryUpdate
    \/ OtherWrite
    \/ DeleteInstance

\* RefreshStatus runs on: no step of it waits for anything but its own API call
\* and the pause between two tries
RefreshStep == RefreshGet \/ RefreshUpdate \/ RetryGet \/ RetryUpdate

SpecRefresh == InitRefresh /\ [][NextRefresh]_vars /\ WF_vars(RefreshStep)

\* ----------------------------------------------------- interleaved calls
\* c.Update is given the object that c.Get filled, resourceVersion included: the
\* store rejects it when the secret has another resourceVersion by now
StaleWriteNever(getErr, gotRv, nowRv) == FALSE

StaleWrite(getErr, gotRv, nowRv) == getErr = "nil" /\ gotRv # nowRv

\* process p enters createCASecret or removeExpiredCA for name: its c.Get
ConcGet(p, name) ==
    /\ procs[p].pc = "idle"
    /\ \E op \in {"createCASecret", "removeExpiredCA"}, isRenew \in BOOLEAN :
          /\ op = "removeExpiredCA" => ~isRenew
          /\ LET g == Get(Ctx(0), name)
             IN  procs' = [procs EXCEPT ![p] = [pc |-> "got", op |-> op, isRenew |-> isRenew,
                                                err |-> g.err, obj |-> g.obj, rv |-> rv[name]]]
    /\ UNCHANGED <<certVars, pure, rv, written, statusVars>>

\* process p runs the rest of its call on what its c.Get answered
ConcWrite(p, name) ==
    /\ procs[p].pc = "got"
    /\ LET me == procs[p]
           c == [Ctx(IF StaleWrite(me.err, me.rv, rv[name]) THEN 2 ELSE 0)
                    EXCEPT !.calls = 1, !.failErr = "Conflict"]
           g == [c |-> c, err |-> me.err, obj |-> me.obj]
           r == IF me.op = "createCASecret"
                THEN caSecretGot(g, nextSerial, me.isRenew, name, CN(name))
                ELSE expiredCAGot(g, name, expired)
           ok == \E i \in 1..Len(r.c.trace) : r.c.trace[i].ok
       IN  /\ r.c.nextSerial <= MaxSerial + 1
           /\ store' = r.c.store
           /\ nextSerial' = r.c.nextSerial
           /\ issued' = r.c.issued
           /\ rv' = [rv EXCEPT ![name] = IF ok THEN @ + 1 ELSE @]
           /\ written' = IF ok /\ me.op = "createCASecret"
                         THEN written \cup {[e |-> r.c.trace[1].e, sn |-> nextSerial]}
                         ELSE written
           /\ last' = Call(me.op, name, me.isRenew, FALSE, NilDns, c.failAt, r)
    /\ procs' = [procs EXCEPT ![p] = Idle]
    /\ UNCHANGED <<expired, tampers, pure, statusVars>>

\* ---------------------------------------------------- the specifications
\* two processes create, renew and prune the server CA secret at the same time
NextConc ==
    \/ \E p \in Procs : ConcGet(p, serverCACerts)
    \/ \E p \in Procs : ConcWrite(p, serverCACerts)
    \/ Expire(serverCACerts)

SpecConc == Init /\ [][NextConc]_vars

\* one CA secret: ensured, renewed, pruned, edited from outside
NextCA ==
    \/ EnsureCA(serverCACerts)
    \/ Prune(serverCACerts)
    \/ Expire(serverCACerts)
    \/ TamperKey(serverCACerts)
    \/ TamperCrt(serverCACerts)
    \/ AppendJunk(serverCACerts)
    \/ Delete(serverCACerts)
    \/ Unlabel(serverCACerts)

SpecCA == Init /\ [][NextCA]_vars

\* one CA secret: ensured, renewed and pruned, never edited from outside
NextRot ==
    \/ EnsureCA(serverCACerts)
    \/ Prune(serverCACerts)
    \/ Expire(serverCACerts)

SpecRot == Init /\ [][NextRot]_vars

\* removeExpiredCA on any stored chain: up to MaxChain pieces, each a
\* certificate, a block that is no certificate, an empty block or bytes that are
\* no PEM, with any of the certificates expired
PruneCerts == {CertBody(sn, serverCACertifcateCN, sn, sn, <<>>, "ca") : sn \in 1..3}
PrunePieces ==
    {Encode(b, CertLen(b)) : b \in PruneCerts}
    \cup {Encode(BadBody, n) : n \in 1..MaxBlockLen}
    \cup {Encode(EmptyBody, 1), <<JunkTok>>}

RECURSIVE Flatten(_)
Flatten(pieces) == IF pieces = <<>> THEN <<>> ELSE Head(pieces) \o Flatten(Tail(pieces))

PruneChains == {Flatten(ps) : ps \in UNION {[1..k -> PrunePieces] : k \in 1..MaxChain}}

InitPrune ==
    /\ \E chain \in PruneChains :
          store = [n \in Names |->
                     IF n = serverCACerts
                     THEN Secret(Encode(CertBody(1, serverCACertifcateCN, 1, 1, <<>>, "ca"), 2),
                                 chain, Encode(MarshalPKCS1PrivateKey(1), 1))
                     ELSE Absent]
    /\ nextSerial = MaxSerial + 1
    /\ expired \in SUBSET (1..3)
    /\ issued = [n \in Names |-> 0]
    /\ tampers = MaxTamper
    /\ last = EnvLast(store, expired)
    /\ InitAux

NextPrune == Prune(serverCACerts)

SpecPrune == InitPrune /\ [][NextPrune]_vars

\* the server CA and the server certificate: ensured, renewed, edited from outside
NextPair ==
    \/ EnsureCA(serverCACerts)
    \/ \E a \in ServerArgs : EnsureLeaf(a)
    \/ \E n \in {serverCACerts, serverCerts} :
          TamperKey(n) \/ TamperCrt(n) \/ PrefixKey(n) \/ Delete(n) \/ Unlabel(n)

SpecPair == Init /\ [][NextPair]_vars

\* every operation on the server CA and the server certificate
NextOps ==
    \/ EnsureCA(serverCACerts)
    \/ \E a \in ServerArgs : EnsureLeaf(a)
    \/ Prune(serverCACerts)
    \/ Expire(serverCACerts)
    \/ \E n \in {serverCACerts, serverCerts} : TamperKey(n) \/ Delete(n)

SpecOps == Init /\ [][NextOps]_vars

\* createCertSecret called for either leaf secret in either role, with the two CAs
RoleArgs ==
    {[name |-> n, isServer |-> r, dns |-> d] : n \in LeafNames, r \in BOOLEAN, d \in HostLists}

NextRole ==
    \/ \E n \in CANames : EnsureCA(n)
    \/ \E a \in RoleArgs : EnsureLeaf(a)

SpecRole == Init /\ [][NextRole]_vars

\* the passes of CreateObservabilityCerts over all four secrets, the direct
\* calls of createCertSecret, and the outside edits
Next ==
    \/ Pass
    \/ \E a \in ServerArgs \cup GrafanaArgs : EnsureLeaf(a)
    \/ \E n \in Names : Delete(n) \/ TamperKey(n) \/ TamperCrt(n) \/ Unlabel(n)

Spec == Init /\ [][Next]_vars

\* passes that fail and are tried again, while CA secrets get deleted: the four
\* secrets of a pass and one CA created again
MaxRetrySerial == MaxSerial + 1

NextRetry ==
    \/ PassUpTo(MaxRetrySerial)
    \/ \E n \in CANames : Delete(n)

SpecRetry == Init /\ [][NextRetry]_vars

\* the server CA and the server certificate, ensured and renewed while the
\* store rejects writes the way it does for a concurrent writer
Rejections == {"Conflict", "AlreadyExists"}

NextConflict ==
    \/ EnsureCAErr(serverCACerts, Rejections)
    \/ \E a \in ServerArgs : EnsureLeafErr(a, Rejections)

SpecConflict == Init /\ [][NextConflict]_vars

\* createCertificate on any common name and any DNS list: nil, or up to MaxDns
\* names in a slice whose array is full or has room for one more
SanNames == {serverCertificateCN, ObsAPISvc, ObsAPIHost}
SanLists == {NilDns} \cup UNION {[1..k -> SanNames] : k \in 0..MaxDns}
SanCaps(dns) == IF dns = NilDns THEN {0} ELSE {Len(dns), Len(dns) + 1}

InitSan ==
    /\ store = [n \in Names |-> Absent]
    /\ nextSerial = 1
    /\ expired = {}
    /\ issued = [n \in Names |-> 0]
    /\ tampers = 0
    /\ last = EnvLast(store, expired)
    /\ InitConc /\ InitStatus
    /\ \E isServer \in BOOLEAN, cn \in {serverCertificateCN, grafanaCertificateCN},
          dns \in SanLists :
          \E cap \in SanCaps(dns) :
              pure = [fn |-> "createCertificate", isServer |-> isServer, cn |-> cn,
                      dns |-> dns, cap |-> cap, done |-> FALSE,
                      panic |-> FALSE, names |-> <<>>]

\* createCertificate called with the inputs of pure
IssueCertificate ==
    /\ pure.fn = "createCertificate" /\ ~pure.done
    /\ LET kc == createCertificate(pure.isServer, pure.cn, pure.dns, pure.cap,
                                   NilBlock, 1, NoKey, 1)
       IN  pure' = [pure EXCEPT !.done = TRUE, !.panic = kc.panic,
                                !.names = IF kc.panic THEN <<>> ELSE kc.cert.dns]
    /\ UNCHANGED <<certVars, concVars, statusVars>>

NextSan == IssueCertificate

SpecSan == InitSan /\ [][NextSan]_vars

\* ------------------------------------------------ reading the stored blobs
\* the bodies of the PEM blocks of data, in order
RECURSIVE Blocks(_)
Blocks(data) ==
    LET d == Decode(data)
    IN  IF d.block = NilBlock THEN <<>> ELSE <<d.block>> \o Blocks(d.rest)

\* the events of the last call that wrote certificate data
DataWrites == {i \in 1..Len(last.trace) : last.trace[i].e \in {"create", "update"}}

\* the key blob of obj is the private key of the certificate in blob crt
\* the two secrets hold the same ca.crt, tls.crt and tls.key
SameData(a, b) ==
    a.exists = b.exists /\ a.ca = b.ca /\ a.crt = b.crt /\ a.key = b.key

KeyFits(obj, crt) ==
    LET kb == Decode(obj.key).block
        cb == Decode(crt).block
    IN  kb.kind = "key" /\ cb.kind = "cert" /\ cb.pub = kb.pub

\* ----------------------------------------------------------------- C1
\* C1: createCASecret(name, cn, false) on a store without the secret makes
\* exactly one create and reports modified = true (when the store accepts it);
\* the same call on the existing secret makes no create and no update of the
\* data, reports modified = false and leaves the stored bytes as they were.
C1_EnsureCAIdempotent ==
    (last.op = "createCASecret" /\ ~last.isRenew) =>
        LET n == last.name
        IN  /\ ~last.pre[n].exists =>
                /\ Cardinality(DataWrites) <= 1
                /\ last.failAt = 0 =>
                      /\ last.err = "nil" /\ last.modified
                      /\ last.trace = <<Ev("create", n, TRUE)>>
                      /\ store[n].exists
                      /\ store[n].ca = store[n].crt
            /\ last.pre[n].exists =>
                /\ DataWrites = {}
                /\ ~last.modified
                /\ SameData(store[n], last.pre[n])

\* the second call: the secret is as the creation left it, and the call kept it
C1_Witness ==
    /\ last.op = "createCASecret" /\ ~last.isRenew /\ last.err = "nil"
    /\ last.pre[last.name].exists
    /\ issued[last.name] # 0
    /\ Len(Blocks(store[last.name].crt)) = 1
    /\ store[last.name].ca = store[last.name].crt

\* ----------------------------------------------------------------- C2
\* C2: a CA renewal that succeeds on a chain of n certificates leaves n + 1:
\* the new certificate first, then the bytes of the old chain unchanged.
C2_RotationKeepsChain ==
    (last.op = "createCASecret" /\ last.isRenew /\ last.pre[last.name].exists
        /\ last.err = "nil") =>
        LET n == last.name
            old == last.pre[n].crt
            new == Decode(store[n].crt).block
        IN  /\ last.modified
            /\ new.kind = "cert" /\ new.sn = issued[n]
            /\ \A i \in 1..Len(Blocks(old)) : Blocks(old)[i].sn # new.sn
            /\ store[n].crt = Encode(new, CertLen(new)) \o old
            /\ Blocks(store[n].crt) = <<new>> \o Blocks(old)
            /\ Len(Blocks(store[n].crt)) = Len(Blocks(old)) + 1

\* the second of two consecutive renewals: three certificates in the chain
C2_Witness ==
    /\ last.op = "createCASecret" /\ last.isRenew /\ last.err = "nil"
    /\ Len(Blocks(last.pre[last.name].crt)) = 2
    /\ Len(Blocks(store[last.name].crt)) = 3
    /\ \A i \in 1..3 : Blocks(store[last.name].crt)[i].kind = "cert"

\* ----------------------------------------------------------------- C8
\* the serials of the certificates of a chain, in chain order
ChainSns(data) == [i \in 1..Len(Blocks(data)) |-> Blocks(data)[i].sn]

\* C8: under renewals and prunes of a CA secret, the stored chain lists its
\* certificates newest first (serials strictly decreasing), all of them parse,
\* and the first is the certificate of the last successful create or renewal,
\* which Data["ca.crt"] holds too.
C8_ChainNewestFirst ==
    \A n \in CANames :
        store[n].exists =>
            LET chain == Blocks(store[n].crt)
            IN  /\ Len(chain) >= 1
                /\ \A i \in 1..Len(chain) : chain[i].kind = "cert"
                /\ \A i \in 1..(Len(chain) - 1) : chain[i].sn > chain[i + 1].sn
                /\ chain[1].sn = issued[n]
                /\ Decode(store[n].ca).block = chain[1]

\* a prune has just removed an expired certificate from a chain of three and
\* two are left
C8_Witness ==
    /\ last.op = "removeExpiredCA" /\ last.trace = <<Ev("update", last.name, TRUE)>>
    /\ Len(Blocks(last.pre[last.name].crt)) = 3
    /\ Len(Blocks(store[last.name].crt)) = 2

\* ----------------------------------------------------------------- C6
\* the PEM blocks of data with their raw bytes, in order
RECURSIVE RawBlocks(_)
RawBlocks(data) ==
    LET d == Decode(data)
        p == CHOOSE q \in 1..Len(data) : BlockAt(data, q) /\ \A r \in 1..(q - 1) : ~BlockAt(data, r)
    IN  IF d.block = NilBlock THEN <<>>
        ELSE <<Encode(d.block, data[p].n)>> \o RawBlocks(d.rest)

\* the first block, and the later blocks that are certificates not expired
RECURSIVE Survivors(_, _, _)
Survivors(raw, i, exp) ==
    IF i > Len(raw) THEN <<>>
    ELSE (IF i = 1 \/ (raw[i][1].b.kind = "cert" /\ raw[i][1].b.sn \notin exp)
          THEN raw[i] ELSE <<>>) \o Survivors(raw, i + 1, exp)

\* C6: removeExpiredCA leaves the chain that is the concatenation, in order, of
\* the bytes of the first block and of the later blocks that parse and are not
\* expired, for every stored chain that holds a block.
C6_PruneExact ==
    (last.op = "removeExpiredCA" /\ last.failAt = 0 /\ last.pre[last.name].exists
        /\ Len(Blocks(last.pre[last.name].crt)) >= 1) =>
        /\ last.err = "nil"
        /\ store[last.name].crt = Survivors(RawBlocks(last.pre[last.name].crt), 1, last.exp)

\* ----------------------------------------------------------------- C7
\* C7: every stored secret that createCASecret or createCertSecret wrote, and
\* that nobody edited from outside since, holds the private key of the public
\* key of its active certificate: the leaf's Data["tls.crt"], the CA's
\* Data["ca.crt"] and the first certificate of its chain.
C7_KeyMatchesCert ==
    \A n \in Names :
        (store[n].exists /\ issued[n] # 0) =>
            /\ KeyFits(store[n], store[n].crt)
            /\ Decode(store[n].crt).block.sn = issued[n]
            /\ n \in CANames => KeyFits(store[n], store[n].ca)

\* a renewal has replaced a key that did not parse, and a prune has then
\* shortened the chain
C7_Witness ==
    /\ last.op = "removeExpiredCA" /\ last.trace = <<Ev("update", last.name, TRUE)>>
    /\ issued[last.name] # 0
    /\ Decode(store[last.name].key).block.pub = issued[last.name]
    /\ tampers > 0

\* ------------------------------------------------------------ C3, C4, C5
\* the DNS names of the certificate stored in obj hold every name of dns
Covers(obj, dns) ==
    LET cert == Decode(obj.crt).block
    IN  \A i \in 1..Len(dns) : \E j \in 1..Len(cert.dns) : cert.dns[j] = dns[i]

\* getCA succeeds on the secrets st when the store answers
CAHealthy(st, isServer) ==
    LET ca == st[CAName(isServer)]
    IN  /\ ca.exists
        /\ Decode(ca.crt).block.kind = "cert"
        /\ Decode(ca.key).block.kind = "key"

\* createCertSecret, not asked to renew, found the server certificate stored and parsable
ServerLeafKept ==
    /\ last.op = "createCertSecret" /\ last.name = serverCerts /\ ~last.isRenew
    /\ last.dns # NilDns
    /\ last.pre[serverCerts].exists
    /\ Decode(last.pre[serverCerts].crt).block.kind = "cert"

\* C3: when a required name is missing from the stored server certificate,
\* createCertSecret does not keep it: a call that returns nil has written a
\* certificate with a new serial whose DNS names hold every required name, and
\* the call returns nil when the store answers, getCA succeeds and the stored
\* key is a PEM block.
C3_DriftRenews ==
    (ServerLeafKept /\ ~Covers(last.pre[serverCerts], last.dns)) =>
        LET old == Decode(last.pre[serverCerts].crt).block
            new == Decode(store[serverCerts].crt).block
        IN  /\ last.err = "nil" =>
                /\ last.trace = <<Ev("update", serverCerts, TRUE)>>
                /\ new.kind = "cert" /\ new.sn # old.sn /\ new.sn = issued[serverCerts]
                /\ Covers(store[serverCerts], last.dns)
            /\ (last.failAt = 0 /\ CAHealthy(last.pre, last.isServer)
                  /\ Decode(last.pre[serverCerts].key).block # NilBlock) => last.err = "nil"

\* the stored certificate named the service only, the route was required too,
\* and the renewal went through
C3_Witness ==
    /\ ServerLeafKept /\ last.err = "nil"
    /\ last.dns = <<ObsAPISvc, ObsAPIHost>>
    /\ Decode(last.pre[serverCerts].crt).block.dns = <<serverCertificateCN, ObsAPISvc>>
    /\ Decode(store[serverCerts].crt).block.dns = <<serverCertificateCN, ObsAPISvc, ObsAPIHost>>

C5_MalformedKeyRecovery ==
    (/\ last.op \in {"createCASecret", "createCertSecret"} /\ last.isRenew
     /\ last.failAt = 0
     /\ last.pre[last.name].exists
     /\ Decode(last.pre[last.name].key).block.kind # "key"
     /\ last.op = "createCertSecret" => CAHealthy(last.pre, last.isServer)) =>
        /\ last.err = "nil"
        /\ KeyFits(store[last.name], store[last.name].crt)
        /\ Decode(store[last.name].key).block.pub = issued[last.name]

\* ------------------------------------------------------------- C9, C10
\* the index of event ev in the trace of the last call, 0 when it is not there
Pos(ev) ==
    IF \E i \in 1..Len(last.trace) : last.trace[i] = ev
    THEN CHOOSE i \in 1..Len(last.trace) : last.trace[i] = ev
    ELSE 0

\* a pass in which both CA steps returned nil and the route lookup of getHosts failed
HostsFailed ==
    /\ last.op = "CreateObservabilityCerts" /\ last.ingress /\ last.routeErr
    /\ Pos(Ev("ret", serverCACerts, TRUE)) # 0
    /\ Pos(Ev("ret", clientCACerts, TRUE)) # 0

\* C9 as claimed: when getHosts fails the pass returns the error and the store
\* holds exactly what it held before the pass.
C9_HostFailureWritesNothing ==
    HostsFailed => (last.err = "Error" /\ store = last.pre)

\* C9 as amended: when getHosts fails the pass returns the error, no leaf
\* secret is created or updated and no secret that existed is changed; the CA
\* secrets that were absent have been created by then.
C9_HostFailureWritesNoLeaf ==
    HostsFailed =>
        /\ last.err = "Error"
        /\ \A n \in LeafNames : store[n] = last.pre[n]
        /\ \A i \in DataWrites : last.trace[i].name \in CANames /\ last.trace[i].e = "create"
        /\ \A n \in CANames : /\ store[n].exists
                              /\ last.pre[n].exists => SameData(store[n], last.pre[n])

\* getHosts failed in a pass that had created both CA secrets
C9_Witness ==
    /\ HostsFailed /\ last.err = "Error"
    /\ \A n \in CANames : ~last.pre[n].exists /\ store[n].exists
    /\ \A n \in LeafNames : ~store[n].exists

\* the CA secret that signs the leaf secret name in a pass
PassCA(name) == IF name = serverCerts THEN serverCACerts ELSE clientCACerts

LeafWritten ==
    /\ last.op = "createCertSecret" /\ last.err = "nil"
    /\ \E i \in DataWrites : last.trace[i].name = last.name /\ last.trace[i].ok

\* C11 as claimed: the Data["ca.crt"] of a leaf that was created or renewed is
\* the whole Data["tls.crt"] of the issuing CA as it was at issuance.
C11_LeafCopiesChain ==
    LeafWritten => store[last.name].ca = last.pre[CAName(last.isServer)].crt

\* C11 as amended: the Data["ca.crt"] of a leaf that was created or renewed is
\* the first PEM block of the issuing CA's Data["tls.crt"], the certificate
\* that signed the leaf, whatever the length of the CA's chain.
C11_LeafCopiesIssuer ==
    LeafWritten =>
        LET chain == last.pre[CAName(last.isServer)].crt
            issuer == Decode(chain).block
            leaf == Decode(store[last.name].crt).block
        IN  /\ issuer.kind = "cert"
            /\ Blocks(store[last.name].ca) = <<issuer>>
            /\ store[last.name].ca = SubSeq(chain, 1, Len(store[last.name].ca))
            /\ leaf.kind = "cert" /\ leaf.by = issuer.pub

\* a leaf issued by a CA that had been renewed: two certificates in the CA's
\* chain, one in the leaf's
C11_Witness ==
    /\ LeafWritten
    /\ Len(Blocks(last.pre[CAName(last.isServer)].crt)) = 2
    /\ Len(Blocks(store[last.name].ca)) = 1

\* ------------------------------------------------------------------ C12
\* createCASecret has renewed the CA secret it was called for
CARenewed ==
    /\ last.op = "createCASecret" /\ last.isRenew /\ last.err = "nil"
    /\ last.pre[last.name].exists

\* C12 as claimed: Data["ca.crt"] of a CA secret holds the whole chain and
\* Data["tls.crt"] one certificate; a renewal puts the new certificate in front
\* of the old Data["ca.crt"] and alone into Data["tls.crt"].
C12_BlobRolesAsClaimed ==
    /\ \A n \in CANames : store[n].exists => Len(Blocks(store[n].crt)) = 1
    /\ CARenewed =>
          LET new == Encode(Decode(store[last.name].crt).block,
                            CertLen(Decode(store[last.name].crt).block))
          IN  /\ store[last.name].ca = new \o last.pre[last.name].ca
              /\ store[last.name].crt = new

\* C12 as amended: Data["tls.crt"] of a CA secret holds the whole chain and
\* Data["ca.crt"] exactly one certificate, the first of the chain; a renewal
\* puts the new certificate in front of the old Data["tls.crt"] and alone
\* into Data["ca.crt"].
C12_BlobRoles ==
    /\ \A n \in CANames : store[n].exists =>
          /\ Len(Blocks(store[n].crt)) >= 1
          /\ Blocks(store[n].ca) = <<Blocks(store[n].crt)[1]>>
          /\ store[n].ca = SubSeq(store[n].crt, 1, Len(store[n].ca))
    /\ CARenewed =>
          /\ Decode(store[last.name].ca).block.sn = issued[last.name]
          /\ store[last.name].crt = store[last.name].ca \o last.pre[last.name].crt

\* after a renewal: two certificates in Data["tls.crt"], one in Data["ca.crt"]
C12_Witness ==
    /\ CARenewed
    /\ Len(Blocks(store[last.name].crt)) = 2
    /\ Len(Blocks(store[last.name].ca)) = 1

\* ------------------------------------------------------------------ C13
\* the hosts a pass discovers
Discovered == IF last.ingress THEN <<ObsAPISvc, ObsAPIHost>> ELSE <<ObsAPISvc>>

\* a pass that found the four secrets stored and the server certificate
\* naming every discovered host
NothingToChange ==
    /\ last.op = "CreateObservabilityCerts"
    /\ \A n \in Names : last.pre[n].exists
    /\ Decode(last.pre[serverCerts].crt).block.kind = "cert"
    /\ last.routeErr \/ Covers(last.pre[serverCerts], Discovered)

\* C13: a pass that finds both CA secrets and both leaf secrets stored, the
\* server certificate naming every discovered host, changes no ca.crt, tls.crt
\* or tls.key and makes no create and no update of data, however it ends.
C13_PassNoSideEffect ==
    NothingToChange =>
        /\ \A n \in Names : SameData(store[n], last.pre[n])
        /\ DataWrites = {}
        /\ (last.failAt = 0 /\ ~last.routeErr) => last.err = "nil"

\* such a pass ran to its end on secrets that an earlier pass had created
C13_Witness ==
    /\ NothingToChange /\ last.err = "nil" /\ ~last.routeErr
    /\ \A n \in Names : issued[n] # 0
    /\ Pos(Ev("ret", grafanaCerts, TRUE)) # 0

\* ------------------------------------------------------------------ C14
\* createCertSecret, not asked to renew, found the server secret stored with
\* a Data["tls.crt"] that holds no certificate; the CA and the stored key are
\* sound and the store answers
ServerCrtUnparsable ==
    /\ last.op = "createCertSecret" /\ last.name = serverCerts /\ ~last.isRenew
    /\ last.pre[serverCerts].exists
    /\ Decode(last.pre[serverCerts].crt).block.kind # "cert"
    /\ Decode(last.pre[serverCerts].key).block.kind = "key"
    /\ CAHealthy(last.pre, last.isServer)
    /\ last.failAt = 0

\* C14: when the stored server certificate does not parse (no PEM block, an
\* empty blob, a PEM block that is no certificate), createCertSecret renews the
\* secret and returns nil, whatever the required DNS list.
C14_UnparsableRenews ==
    ServerCrtUnparsable =>
        /\ last.err = "nil"
        /\ Pos(Ev("update", serverCerts, TRUE)) # 0
        /\ Decode(store[serverCerts].crt).block.kind = "cert"
        /\ Decode(store[serverCerts].crt).block.sn = issued[serverCerts]

\* ------------------------------------------------------------------ C15
\* createCertSecret, not asked to renew, found the leaf stored with a
\* certificate that parses; the CA of the role is sound and the store answers
LeafFound ==
    /\ last.op = "createCertSecret" /\ ~last.isRenew /\ last.dns # NilDns
    /\ last.pre[last.name].exists
    /\ Decode(last.pre[last.name].crt).block.kind = "cert"
    /\ CAHealthy(last.pre, last.isServer)
    /\ last.failAt = 0

\* the call has renewed the leaf
LeafRenewed == Pos(Ev("update", last.name, TRUE)) # 0

\* C15 as claimed: the stored DNS names are compared with the required list
\* exactly when the call is for the server role, whatever the secret's name.
C15_DriftByRole ==
    LeafFound => (LeafRenewed <=> (last.isServer /\ ~Covers(last.pre[last.name], last.dns)))

\* C15 as amended: the stored DNS names are compared with the required list
\* exactly when the secret's name is serverCerts, whatever the role of the call.
C15_DriftByName ==
    LeafFound =>
        (LeafRenewed <=> (last.name = serverCerts /\ ~Covers(last.pre[last.name], last.dns)))

\* a server-role call for the secret grafanaCerts, a required name missing, kept
C15_Witness ==
    /\ LeafFound /\ last.isServer /\ last.name = grafanaCerts
    /\ ~Covers(last.pre[last.name], last.dns)
    /\ ~LeafRenewed /\ last.err = "nil"

\* ------------------------------------------------------------------ C16
\* C16: a call of createCASecret or createCertSecret that the store answers,
\* and that finds the CA secret of its role when it needs one, returns nil
\* whatever the stored keys and certificates hold.
C16_ParseFailureNotFatal ==
    (/\ last.op \in {"createCASecret", "createCertSecret"}
     /\ last.failAt = 0
     /\ last.op = "createCertSecret" => last.pre[CAName(last.isServer)].exists) =>
        last.err = "nil"

\* ------------------------------------------------------------------ C17
\* removeExpiredCA was called on a chain whose first byte starts a PEM block
PrunedFromBlock ==
    /\ last.op = "removeExpiredCA"
    /\ last.pre[last.name].exists
    /\ Len(last.pre[last.name].crt) > 0
    /\ BlockAt(last.pre[last.name].crt, 1)

\* C17: the bytes of the first block of the chain are the first bytes of the
\* chain after removeExpiredCA, whether or not the first block is a
\* certificate and whether or not that certificate is expired.
C17_FirstBlockSurvives ==
    PrunedFromBlock =>
        LET old == last.pre[last.name].crt
            first == SubSeq(old, 1, old[1].n)
        IN  /\ Len(store[last.name].crt) >= Len(first)
            /\ SubSeq(store[last.name].crt, 1, Len(first)) = first

\* the first certificate is expired, a later block was dropped, the first stayed
C17_Witness ==
    /\ PrunedFromBlock
    /\ Decode(last.pre[last.name].crt).block.kind = "cert"
    /\ Expired(Decode(last.pre[last.name].crt).block, last.exp)
    /\ Pos(Ev("update", last.name, TRUE)) # 0
    /\ Len(store[last.name].crt) < Len(last.pre[last.name].crt)

\* ------------------------------------------------------------------ C18
\* removeExpiredCA was called and c.Get returned the secret
PruneGot ==
    /\ last.op = "removeExpiredCA" /\ last.failAt # 1
    /\ last.pre[last.name].exists

\* a block after the first of the chain is no certificate or is expired
ToDrop ==
    LET blks == Blocks(last.pre[last.name].crt)
    IN  \E i \in 2..Len(blks) : blks[i].kind # "cert" \/ Expired(blks[i], last.exp)

Updates == {i \in DataWrites : last.trace[i].e = "update"}

\* C18: removeExpiredCA issues exactly one update when a block after the first
\* is to be dropped, and no update when every block is kept.
C18_WriteIffDropped ==
    PruneGot =>
        /\ ToDrop => Cardinality(Updates) = 1
        /\ ~ToDrop => Updates = {}

\* ------------------------------------------------------------------ C19
\* C19: removeExpiredCA leaves Data["ca.crt"], the active certificate, and
\* Data["tls.key"] of the secret as they were, creates and deletes no secret
\* and touches no other secret; the chain keeps its first block.
C19_PruneOnlyChain ==
    last.op = "removeExpiredCA" =>
        /\ \A n \in Names : /\ store[n].exists = last.pre[n].exists
                            /\ store[n].ca = last.pre[n].ca
                            /\ store[n].key = last.pre[n].key
                            /\ store[n].label = last.pre[n].label
        /\ \A n \in Names \ {last.name} : store[n] = last.pre[n]
        /\ \A i \in DataWrites : last.trace[i] \in {Ev("update", last.name, TRUE),
                                                    Ev("update", last.name, FALSE)}
        /\ Decode(store[last.name].crt).block = Decode(last.pre[last.name].crt).block

\* a prune that shortened the chain
C19_Witness ==
    /\ last.op = "removeExpiredCA" /\ last.err = "nil"
    /\ Pos(Ev("update", last.name, TRUE)) # 0
    /\ Len(Blocks(store[last.name].crt)) < Len(Blocks(last.pre[last.name].crt))
    /\ store[last.name].ca # <<>> /\ store[last.name].key # <<>>

\* ------------------------------------------------------------------ C20
\* createCASecret or createCertSecret has renewed the stored secret
Renewed ==
    /\ last.op \in {"createCASecret", "createCertSecret"}
    /\ last.pre[last.name].exists
    /\ Pos(Ev("update", last.name, TRUE)) # 0

Issued == pure.fn = "createCertificate" /\ pure.done

\* C21: for every common name cn and every DNS list L of any length, the empty
\* list included, createCertificate issues a certificate whose DNS names are cn
\* followed by the entries of L in their order, duplicates kept; with no list
\* the DNS names are <<cn>>.
C21_SanList ==
    Issued =>
        /\ ~pure.panic
        /\ pure.names = IF pure.dns = NilDns THEN <<pure.cn>> ELSE <<pure.cn>> \o pure.dns

\* ------------------------------------------------------------------ C22
\* the store has rejected a create or an update of createCASecret or
\* createCertSecret with Conflict or AlreadyExists
WriteRejected ==
    /\ last.op \in {"createCASecret", "createCertSecret"}
    /\ last.failErr \in Rejections
    /\ \E i \in DataWrites : ~last.trace[i].ok

\* C22: when the store rejects the update of a renewal with Conflict, or the
\* create with AlreadyExists, createCASecret returns that error with modified =
\* false and createCertSecret returns that error; the call makes no other
\* create or update, and the store holds exactly what it held before the call.
C22_ConflictPropagated ==
    WriteRejected =>
        /\ last.err = last.failErr
        /\ ~last.modified
        /\ Cardinality(DataWrites) = 1
        /\ store = last.pre

\* the update of a renewal of a stored CA secret was rejected with Conflict
C22_Witness ==
    /\ WriteRejected /\ last.op = "createCASecret" /\ last.isRenew
    /\ last.err = "Conflict"
    /\ last.trace = <<Ev("update", last.name, FALSE)>>
    /\ Len(Blocks(store[last.name].crt)) >= 1

\* ------------------------------------------------------------------ C23
\* C23: for every interleaving of two processes that create, renew and prune
\* one CA secret, the store rejecting every update made on a stale read: the
\* stored key is the key of the active certificate; the certificate of every
\* renewal that returned nil is in the chain or is expired; at most one create
\* succeeds, and exactly one has succeeded when a create is rejected.
C23_VersionedWritesSafe ==
    LET n == serverCACerts
        creates == {w \in written : w.e = "create"}
    IN  /\ store[n].exists =>
              /\ KeyFits(store[n], store[n].ca)
              /\ KeyFits(store[n], store[n].crt)
        /\ \A w \in written :
              w.e = "update" =>
                  \/ \E i \in 1..Len(Blocks(store[n].crt)) : Blocks(store[n].crt)[i].sn = w.sn
                  \/ w.sn \in expired
        /\ Cardinality(creates) <= 1
        /\ store[n].exists => Cardinality(creates) = 1
        /\ (last.op = "createCASecret" /\ last.trace = <<Ev("create", n, FALSE)>>) =>
              (last.err = "AlreadyExists" /\ Cardinality(creates) = 1)

\* a prune that read the chain before a renewal and wrote after it was rejected
C23_Witness ==
    /\ last.op = "removeExpiredCA"
    /\ last.trace = <<Ev("update", serverCACerts, FALSE)>>
    /\ \E w \in written : w.e = "update" /\ Decode(store[serverCACerts].crt).block.sn = w.sn
    /\ Cardinality({w \in written : w.e = "create"}) = 1

\* ------------------------------------------------------------------ C24
\* the certificate stored in the leaf secret is signed by the key stored in
\* the CA secret of its role
SignedByStoredCA(leaf) ==
    LET cert == Decode(store[leaf].crt).block
        caKey == Decode(store[PassCA(leaf)].key).block
    IN  /\ store[leaf].exists /\ store[PassCA(leaf)].exists
        /\ cert.kind = "cert" /\ caKey.kind = "key"
        /\ cert.by = caKey.pub

\* C24: whenever a pass of CreateObservabilityCerts returns nil, the stored
\* server certificate is signed by the key stored in the server CA secret and
\* the stored grafana certificate by the key stored in the client CA secret,
\* for every sequence of passes, a pass that created a CA and then failed
\* before it renewed the leaf of that CA included.
C24_LeafSignedByCurrentCA ==
    (last.op = "CreateObservabilityCerts" /\ last.err = "nil") =>
        \A leaf \in LeafNames : SignedByStoredCA(leaf)

\* ------------------------------------------------------------------ C25
\* a pod of the input is failed, pending, running with a container not ready
HasPod(phase, notReady) ==
    \E i \in 1..Len(pure.pods) :
        /\ pure.pods[i].phase = phase
        /\ notReady => \E j \in 1..Len(pure.pods[i].ready) : ~pure.pods[i].ready[j]

\* C25: generateCondition returns one condition for every input: Degraded,
\* with the message and reason of degradedErr, whenever degradedErr is not nil;
\* otherwise metrics-disabled when the addon spec is set with EnableMetrics
\* false; otherwise Failed if a pod of any component is failed; otherwise
\* Pending if one is pending; otherwise running-but-not-ready if one is
\* running with a container not ready; otherwise Ready.
C25_ConditionPriority ==
    (pure.fn = "generateCondition" /\ pure.done) =>
        /\ Len(pure.out) = 1
        /\ pure.out[1] =
              IF ~pure.degradedErr.nil
              THEN Condition("ConditionDegraded", pure.degradedErr.Message,
                             pure.degradedErr.Reason)
              ELSE IF ~pure.addonSpec.nil /\ ~pure.addonSpec.EnableMetrics
              THEN conditionMetricsDisabled
              ELSE IF HasPod("Failed", FALSE) THEN conditionFailed
              ELSE IF HasPod("Pending", FALSE) THEN conditionPending
              ELSE IF HasPod("Running", TRUE) THEN conditionRunning
              ELSE conditionReady

\* a failed pod in one component and a pending pod in another: Failed
C25_Witness ==
    /\ pure.fn = "generateCondition" /\ pure.done
    /\ pure.degradedErr.nil /\ pure.addonSpec.nil
    /\ Len(pure.pods) = 2
    /\ pure.pods[1].phase = "Pending" /\ pure.pods[2].phase = "Failed"
    /\ pure.pods[1].component # pure.pods[2].component
    /\ pure.out = <<conditionFailed>>

\* ------------------------------------------------------------------ C26
\* the places of the status updates in the events of the call
UpdateEvents == {i \in 1..Len(refresh.log) : refresh.log[i].e = "update"}

RefreshDone == refresh.pc = "done"

\* what the call has to write: the component status and the conditions of its
\* arguments, computed once
Computed ==
    /\ refresh.cs = generateComponentStatus(refresh.pods)
    /\ Len(refresh.activeConditions) = 1
    /\ refresh.activeConditions[1].Type =
          generateCondition(refresh.cs, mco.addonSpec, refresh.degradedErr).Type

\* the safety part of C26
RefreshRetriesOnConflictOnly ==
    LET log == refresh.log
        n == Len(log)
    IN  \* the instance is not found: nil, and no status update
        /\ (RefreshDone /\ log[1].res = "NotFound") => (refresh.err = "nil" /\ n = 1)
        \* an update that is not the last one of the call got a Conflict; a
        \* non-conflict error of an update is returned with no retry
        /\ \A i \in UpdateEvents :
              /\ i < n => log[i].res = "Conflict"
              /\ (RefreshDone /\ i = n) => refresh.err = log[i].res
              /\ log[i].res \notin {"nil", "Conflict"} => i = n
        \* every update follows a c.Get of the instance with nothing in between
        \* and sends what statusUpdater makes of the object just read
        /\ \A i \in UpdateEvents :
              /\ i > 1 /\ log[i - 1].e = "get" /\ log[i - 1].res = "nil"
              /\ log[i].rv = log[i - 1].rv
        /\ refresh.pc \in {"update", "retryUpdate"} =>
              /\ Computed
              /\ refresh.instance = statusUpdater(
                      [rv |-> log[n].rv, addonSpec |-> mco.addonSpec,
                       components |-> refresh.instance.components,
                       conditions |-> log[n].onto],
                      refresh.cs, refresh.activeConditions, refresh.now)
        \* no more updates than one and the RetrySteps tries; a Conflict is
        \* returned only when all of them got one
        /\ Cardinality(UpdateEvents) <= 1 + RetrySteps
        /\ (RefreshDone /\ refresh.err = "Conflict") =>
              Cardinality(UpdateEvents) = 1 + RetrySteps
        \* an update that was accepted: nil is returned, and the status is the
        \* computed one on top of what the c.Get before it read, which is what
        \* the API server held when it took the update
        /\ (RefreshDone /\ n > 1 /\ log[n].e = "update" /\ log[n].res = "nil") =>
              /\ refresh.err = "nil"
              /\ log[n].onto = log[n - 1].onto
              /\ mco.components = refresh.cs
              /\ mco.conditions = mergeConditions(log[n - 1].onto, refresh.activeConditions,
                                                   refresh.now)

\* C26: RefreshStatus returns nil and writes no status when the instance is
\* not found; returns a non-conflict error of the first status update with no
\* retry; after a Conflict makes every further status update right after a
\* fresh c.Get of the instance, applying the components and conditions it
\* computed once to the object just read; tries no more than RetrySteps times;
\* returns nil with the status written as soon as an update is accepted; and
\* always comes to an end.
C26_RetryOnConflict == []RefreshRetriesOnConflictOnly /\ <>RefreshDone

\* two conflicts, then an update on a fresh read that the API server took
C26_Witness ==
    /\ RefreshDone /\ refresh.err = "nil"
    /\ Cardinality(UpdateEvents) = 3
    /\ refresh.log[Len(refresh.log)].res = "nil"
    /\ mco.conditions.old = <<conditionPending>>

\* ------------------------------------------------------------------ C27
\* C27: every element of the activeConditions that RefreshStatus passes to
\* mergeConditions has Status = True and LastTransitionTime = the now given
\* to RefreshStatus.
C27_ActiveStamped ==
    refresh.pc \in {"update", "retryGet", "retryUpdate"} =>
        LET active == refresh.instance.conditions.active
        IN  /\ Len(active) >= 1
            /\ \A i \in 1..Len(active) :
                  /\ active[i].Status = ConditionTrue
                  /\ active[i].LastTransitionTime = refresh.now
====
